---- MODULE Spec2Model ----
(***************************************************************************)
(* Model of src/program/TSPproblem.py: the TSPProblem formulation          *)
(* (actions / result / is_goal) and the exhaustive solver tsp_solver.      *)
(*                                                                         *)
(* Python values are represented as follows:                               *)
(*   - a tuple or list of cities is a sequence of strings;                 *)
(*   - the dict-of-dicts `distances` is a function whose domain is the set *)
(*     of ordered pairs <<x, y>> for which distances[x][y] exists; any     *)
(*     other lookup raises KeyError;                                       *)
(*   - math.inf is Inf and a finite number c is Fin(c);                    *)
(*   - None is the value None, distinct from every tuple.                  *)
(***************************************************************************)
EXTENDS Integers, Sequences, FiniteSets, TLC

VARIABLES
    cities,     \* problem.cities
    distances,  \* problem.distances
    initial,    \* problem.initial
    pc,         \* position of tsp_solver: ready, loop, returned, IndexError, KeyError
    perms,      \* the tuples produced by permutations(problem.cities), in order
    idx,        \* 1-based position of the for loop in perms
    min_cost,   \* local min_cost of tsp_solver
    best_path,  \* local best_path of tsp_solver
    lookups,    \* the pairs <<x, y>> for which distances[x][y] has been evaluated
    state       \* a route built with TSPProblem.actions / TSPProblem.result

vars == <<cities, distances, initial, pc, perms, idx, min_cost, best_path,
          lookups, state>>

problem == <<cities, distances, initial>>
solver == <<pc, perms, idx, min_cost, best_path, lookups>>

----------------------------------------------------------------------------
(* Bounds and input universes *)

\* Largest distance of a generated table (distances are 1..MaxDist).
MaxDist == 2

\* City names of the generated instances
Names == {"A", "B", "C"}

\* Candidates for problem.initial: the names above and one that no generated
\* city list holds.
StartNames == Names \cup {"D"}

\* Generated city lists: no city, one, two and three distinct cities, in
\* list orders that differ from the alphabetical one as well.
CityLists ==
    { <<>>, <<"A">>, <<"A", "B">>, <<"B", "A">>,
      <<"A", "B", "C">>, <<"C", "A", "B">> }

\* Every list of distinct names (for the stepping interface).
AllCityLists ==
    { s \in UNION { [1..n -> Names] : n \in 0..Cardinality(Names) } :
        \A i, j \in DOMAIN s : i # j => s[i] # s[j] }

OffDiag == { p \in Names \X Names : p[1] # p[2] }
Diag == { <<c, c>> : c \in Names }

\* Tables over the ordered pairs of distinct names, each pair present or not.
OffDiagTables == UNION { [dom -> 1..MaxDist] : dom \in SUBSET OffDiag }

\* Tables that hold every ordered pair of distinct names.
CompleteOffDiagTables == [OffDiag -> 1..MaxDist]

\* Self-distances: absent, the conventional 0, or a positive value.
DiagTables == { [p \in {} |-> 0] } \cup { [p \in Diag |-> v] : v \in {0, MaxDist} }

Tables == { off @@ dg : off \in OffDiagTables, dg \in DiagTables }

----------------------------------------------------------------------------
(* The demonstration instance of the __main__ block *)

DemoCities == <<"A", "B", "C", "D">>

DemoRows ==
    [ A |-> [A |-> 0,  B |-> 10, C |-> 15, D |-> 20],
      B |-> [A |-> 10, B |-> 0,  C |-> 35, D |-> 25],
      C |-> [A |-> 15, B |-> 35, C |-> 0,  D |-> 30],
      D |-> [A |-> 20, B |-> 25, C |-> 30, D |-> 0] ]

DemoDistances ==
    [ p \in {"A", "B", "C", "D"} \X {"A", "B", "C", "D"} |-> DemoRows[p[1]][p[2]] ]

DemoInitial == "A"

----------------------------------------------------------------------------
(* Python values *)

Inf == [inf |-> TRUE]
Fin(c) == [inf |-> FALSE, v |-> c]
None == [none |-> TRUE]

ToSet(s) == { s[i] : i \in DOMAIN s }

\* comparison of a finite number with a number that may be math.inf
Less(cost, m) == IF m.inf THEN TRUE ELSE cost < m.v

----------------------------------------------------------------------------
(* itertools.permutations(iterable): all orderings of the positions of the *)
(* input, emitted in lexicographic order of positions; one empty tuple for  *)
(* an empty input.                                                          *)

RemoveAt(s, i) == [ j \in 1..(Len(s) - 1) |-> IF j < i THEN s[j] ELSE s[j + 1] ]

RECURSIVE permutations(_), PermsFrom(_, _)
PermsFrom(s, i) ==
    IF i > Len(s) THEN <<>>
    ELSE LET sub == permutations(RemoveAt(s, i))
         IN  [ j \in 1..Len(sub) |-> <<s[i]>> \o sub[j] ] \o PermsFrom(s, i + 1)

permutations(s) == IF Len(s) = 0 THEN << <<>> >> ELSE PermsFrom(s, 1)

----------------------------------------------------------------------------
(* TSPProblem *)

\* Faulty variant of actions: only the last city of the route counts as visited.
ActionsButLast(s) == SelectSeq(cities, LAMBDA c : c # s[Len(s)])

\* Faulty variant of actions: once every city is visited, the return to the
\* first city of the route is offered.
ActionsThenHome(s) ==
    IF ToSet(cities) \subseteq ToSet(s) THEN <<s[1]>>
    ELSE SelectSeq(cities, LAMBDA c : c \notin ToSet(s))

\* visited = set(state); [city for city in self.cities if city not in visited]
actions(s) == SelectSeq(cities, LAMBDA c : c \notin ToSet(s))

\* state + (action,)
result(s, a) == s \o <<a>>

\* len(state) == len(self.cities) + 1 and state[0] == state[-1]
is_goal(s) == Len(s) = Len(cities) + 1 /\ s[1] = s[Len(s)]

----------------------------------------------------------------------------
(* tsp_solver *)

\* Faulty variant of Lookup: an absent entry counts as 0 instead of raising.
LookupDefault(x, y) ==
    IF <<x, y>> \in DOMAIN distances
    THEN [ok |-> TRUE, v |-> distances[<<x, y>>]]
    ELSE [ok |-> TRUE, v |-> 0]

\* problem.distances[x][y]: the value, or KeyError when the entry is absent
Lookup(x, y) ==
    IF <<x, y>> \in DOMAIN distances
    THEN [ok |-> TRUE, v |-> distances[<<x, y>>]]
    ELSE [ok |-> FALSE]

\* Faulty variant of Edge: destination first.
EdgeReversed(path, i) == <<path[i + 1], path[i]>>

\* the keys of the lookup for index i of the generator: path[i], path[i + 1]
Edge(path, i) == <<path[i], path[i + 1]>>

\* sum(problem.distances[path[i]][path[i + 1]] for i in range(len(path) - 1)),
\* from index i on: the lookups happen left to right and the first absent
\* entry raises KeyError.  looked = the pairs looked up.
RECURSIVE SumFrom(_, _)
SumFrom(path, i) ==
    IF i > Len(path) - 1 THEN [ok |-> TRUE, v |-> 0, looked |-> {}]
    ELSE LET e == Edge(path, i)
             r == Lookup(e[1], e[2])
         IN  IF ~r.ok THEN [ok |-> FALSE, looked |-> {e}]
             ELSE LET rest == SumFrom(path, i + 1)
                  IN  IF rest.ok
                      THEN [ok |-> TRUE, v |-> r.v + rest.v,
                            looked |-> {e} \cup rest.looked]
                      ELSE [ok |-> FALSE, looked |-> {e} \cup rest.looked]

PathCost(path) == SumFrom(path, 1)

\* Faulty variant of ClosedTour: the start city is not appended.
OpenTour(perm) == perm

\* path = perm + (start,)
ClosedTour(perm) == perm \o <<initial>>

\* Faulty variant of Skipped: no permutation is filtered out.
NeverSkipped(perm) == FALSE

\* the test of: if perm[0] != start: continue
Skipped(perm) == perm[1] # initial

\* Faulty variant of Better: cost <= min_cost, so a later tie replaces the best.
BetterOrEqual(cost, m) == IF m.inf THEN TRUE ELSE cost <= m.v

\* Faulty variant of Better: every priced tour replaces the best.
BetterAlways(cost, m) == TRUE

\* the test of: if cost < min_cost
Better(cost, m) == Less(cost, m)

\* start = problem.initial; min_cost = math.inf; best_path = None;
\* the for loop obtains the permutations
Begin ==
    /\ pc = "ready"
    /\ pc' = "loop"
    /\ min_cost' = Inf
    /\ best_path' = None
    /\ perms' = permutations(cities)
    /\ idx' = 1
    /\ UNCHANGED <<problem, lookups, state>>

\* perm[0] on an empty tuple raises IndexError
IndexFail ==
    /\ pc = "loop"
    /\ idx <= Len(perms)
    /\ Len(perms[idx]) = 0
    /\ pc' = "IndexError"
    /\ UNCHANGED <<problem, perms, idx, min_cost, best_path, lookups, state>>

\* if perm[0] != start: continue
Skip ==
    /\ pc = "loop"
    /\ idx <= Len(perms)
    /\ Len(perms[idx]) > 0
    /\ Skipped(perms[idx])
    /\ idx' = idx + 1
    /\ UNCHANGED <<problem, pc, perms, min_cost, best_path, lookups, state>>

\* one iteration that prices the closed tour and compares it with the best
Evaluate ==
    /\ pc = "loop"
    /\ idx <= Len(perms)
    /\ Len(perms[idx]) > 0
    /\ ~Skipped(perms[idx])
    /\ LET path == ClosedTour(perms[idx])
           cost == PathCost(path)
       IN  /\ cost.ok
           /\ lookups' = lookups \cup cost.looked
           /\ IF Better(cost.v, min_cost)
              THEN min_cost' = Fin(cost.v) /\ best_path' = path
              ELSE UNCHANGED <<min_cost, best_path>>
    /\ idx' = idx + 1
    /\ UNCHANGED <<problem, pc, perms, state>>

\* one iteration whose sum meets an absent entry: KeyError leaves tsp_solver
LookupFail ==
    /\ pc = "loop"
    /\ idx <= Len(perms)
    /\ Len(perms[idx]) > 0
    /\ ~Skipped(perms[idx])
    /\ LET cost == PathCost(ClosedTour(perms[idx]))
       IN  /\ ~cost.ok
           /\ lookups' = lookups \cup cost.looked
    /\ pc' = "KeyError"
    /\ UNCHANGED <<problem, perms, idx, min_cost, best_path, state>>

\* return best_path, min_cost
Return ==
    /\ pc = "loop"
    /\ idx > Len(perms)
    /\ pc' = "returned"
    /\ UNCHANGED <<problem, perms, idx, min_cost, best_path, lookups, state>>

\* a generic search extends the route by one of the offered actions
Step ==
    /\ \E a \in ToSet(actions(state)) : state' = result(state, a)
    /\ UNCHANGED <<problem, solver>>

----------------------------------------------------------------------------
(* Specifications *)

BeforeCall ==
    /\ pc = "ready"
    /\ perms = <<>>
    /\ idx = 0
    /\ min_cost = Inf
    /\ best_path = None
    /\ lookups = {}
    /\ state = <<initial>>

\* the solver on the generated instances and on the demonstration instance
Init ==
    /\ \/ /\ cities \in CityLists
          /\ distances \in Tables
          /\ initial \in StartNames
       \/ /\ cities = DemoCities
          /\ distances = DemoDistances
          /\ initial = DemoInitial
    /\ BeforeCall

Next == Begin \/ IndexFail \/ Skip \/ Evaluate \/ LookupFail \/ Return

Spec == Init /\ [][Next]_vars

\* the stepping interface from the route (initial,)
InitModel ==
    /\ cities \in AllCityLists
    /\ distances \in CompleteOffDiagTables
    /\ initial \in StartNames
    /\ BeforeCall

NextModel == Step

SpecModel == InitModel /\ [][NextModel]_vars

----------------------------------------------------------------------------
(* Vocabulary of the properties *)

N == Len(cities)
Distinct(s) == \A i, j \in DOMAIN s : i # j => s[i] # s[j]
StartInCities == initial \in ToSet(cities)
DistinctPairs == { p \in ToSet(cities) \X ToSet(cities) : p[1] # p[2] }
CompleteTable == DistinctPairs \subseteq DOMAIN distances
ValidInstance == N >= 2 /\ Distinct(cities) /\ StartInCities /\ CompleteTable
Finished == pc \in {"returned", "IndexError", "KeyError"}
IsDemo ==
    cities = DemoCities /\ distances = DemoDistances /\ initial = DemoInitial

\* the cost of a path recomputed from the table, origin first
RECURSIVE DirectedSum(_)
DirectedSum(p) ==
    IF Len(p) < 2 THEN 0 ELSE distances[<<p[1], p[2]>>] + DirectedSum(Tail(p))

\* the same path priced against the direction of travel
RECURSIVE BackwardSum(_)
BackwardSum(p) ==
    IF Len(p) < 2 THEN 0 ELSE distances[<<p[2], p[1]>>] + BackwardSum(Tail(p))

\* every ordering of the cities that begins with the start city, enumerated
\* as the one-to-one functions 1..N -> cities
Candidates ==
    { p \in [1..N -> ToSet(cities)] :
        p[1] = initial /\ \A i, j \in 1..N : i # j => p[i] # p[j] }

\* the cost of the round trip through p: N edges, the last one back to p[1]
RECURSIVE CycleSumFrom(_, _)
CycleSumFrom(p, i) ==
    IF i > Len(p) THEN 0
    ELSE distances[<<p[i], p[(i % Len(p)) + 1]>>] + CycleSumFrom(p, i + 1)
CycleCost(p) == CycleSumFrom(p, 1)

RECURSIVE Factorial(_)
Factorial(n) == IF n <= 0 THEN 1 ELSE n * Factorial(n - 1)

\* the positions of the loop that priced a tour so far
Evaluated == { j \in 1..(idx - 1) : perms[j][1] = initial }

\* position of city c in the cities list
PosOf(c) == CHOOSE i \in 1..N : cities[i] = c

\* p comes before q in the lexicographic order of positions in cities
LexBefore(p, q) ==
    \E k \in 1..N :
        /\ \A m \in 1..(k - 1) : p[m] = q[m]
        /\ PosOf(p[k]) < PosOf(q[k])

----------------------------------------------------------------------------
(* C1 - C4: the result on valid instances (specification Spec) *)

\* C1: on a valid instance (n >= 2 distinct cities, complete table, start in
\* cities) tsp_solver returns, and the returned tour has length n+1, begins
\* and ends with start, and its first n elements hold every city exactly once.
C1_TourShape ==
    (ValidInstance /\ Finished) =>
        /\ pc = "returned"
        /\ best_path # None
        /\ Len(best_path) = N + 1
        /\ best_path[1] = initial
        /\ best_path[N + 1] = initial
        /\ \A c \in ToSet(cities) :
              Cardinality({ i \in 1..N : best_path[i] = c }) = 1

C1_Witness ==
    ValidInstance /\ pc = "returned" /\ N = 3 /\ best_path # None

\* C2: on a valid instance the returned cost is the minimum over the closed
\* tours of all (n-1)! orderings that begin with start: none is strictly
\* cheaper, one attains it, and the loop has priced each of them.
C2_Minimal ==
    (ValidInstance /\ pc = "returned") =>
        /\ ~min_cost.inf
        /\ \A p \in Candidates : min_cost.v <= CycleCost(p)
        /\ \E p \in Candidates : min_cost.v = CycleCost(p)
        /\ Cardinality(Candidates) = Factorial(N - 1)
        /\ Cardinality(Evaluated) = Factorial(N - 1)
        /\ \A p \in Candidates : \E j \in Evaluated : perms[j] = p

C2_Witness ==
    /\ ValidInstance /\ pc = "returned" /\ N = 3
    /\ \E p \in Candidates : CycleCost(p) > min_cost.v

\* C3: on a valid instance, symmetric or not, the returned cost is the sum of
\* distances[path[i]][path[i+1]] over the n consecutive pairs of the returned
\* tour, each priced origin first.
C3_DirectedCost ==
    (ValidInstance /\ pc = "returned") =>
        /\ best_path # None
        /\ Len(best_path) - 1 = N
        /\ min_cost = Fin(DirectedSum(best_path))

C3_Witness ==
    /\ ValidInstance /\ pc = "returned"
    /\ best_path # None
    /\ BackwardSum(best_path) # DirectedSum(best_path)

\* C4: the permutations come in lexicographic order of positions in the cities
\* list, and the recorded best tour is the first priced tour that attains the
\* least cost seen so far: a later tour of equal cost never replaces it.  On
\* the demonstration instance the result is (A, B, D, C, A) with cost 80.
C4_FirstOnTies ==
    /\ (ValidInstance /\ pc \in {"loop", "returned"}) =>
          /\ \A j, k \in DOMAIN perms : j < k => LexBefore(perms[j], perms[k])
          /\ Evaluated # {} =>
                \E j \in Evaluated :
                    /\ best_path = perms[j] \o <<initial>>
                    /\ min_cost = Fin(DirectedSum(perms[j] \o <<initial>>))
                    /\ \A k \in Evaluated :
                          LET c == DirectedSum(perms[k] \o <<initial>>)
                          IN  /\ c >= min_cost.v
                              /\ c = min_cost.v => j <= k
    /\ (IsDemo /\ pc = "returned") =>
          /\ best_path = <<"A", "B", "D", "C", "A">>
          /\ min_cost = Fin(80)

C4_Witness ==
    /\ IsDemo /\ pc = "returned"
    /\ best_path = <<"A", "B", "D", "C", "A">>
    /\ \E k \in Evaluated :
          /\ perms[k] = <<"A", "C", "D", "B">>
          /\ Fin(DirectedSum(perms[k] \o <<initial>>)) = min_cost

----------------------------------------------------------------------------
(* C5 - C8: degenerate and failing instances (specification Spec) *)

\* C5: with an empty city list tsp_solver raises nothing and returns
\* (None, infinity).
C5_EmptyReturnsNone ==
    (N = 0 /\ Finished) =>
        pc = "returned" /\ best_path = None /\ min_cost = Inf

\* C6: when start is not in a non-empty city list, tsp_solver looks up no
\* distance, raises nothing, and returns (None, infinity), whatever the table.
C6_StartAbsent ==
    (N >= 1 /\ ~StartInCities) =>
        /\ lookups = {}
        /\ Finished => pc = "returned"
        /\ pc \in {"loop", "returned"} => best_path = None /\ min_cost = Inf
        /\ pc = "loop" => ENABLED (Skip \/ Return)

C6_Witness ==
    /\ N >= 2 /\ ~StartInCities /\ pc = "returned"
    /\ DistinctPairs \cap DOMAIN distances # {}
    /\ ~CompleteTable
    /\ best_path = None /\ min_cost = Inf

\* C7: with n >= 2 distinct cities and start in cities, a table that lacks
\* the entry of some ordered pair of distinct cities makes tsp_solver end in
\* a lookup error: it never returns a pair, whatever was priced before.
C7_MissingEntryAborts ==
    (N >= 2 /\ Distinct(cities) /\ StartInCities /\ ~CompleteTable) =>
        /\ pc # "returned"
        /\ Finished => pc = "KeyError"
        /\ pc = "loop" => idx <= Len(perms)

C7_Witness ==
    /\ N >= 2 /\ Distinct(cities) /\ StartInCities
    /\ Cardinality(DistinctPairs \ DOMAIN distances) = 1
    /\ pc = "KeyError"
    /\ best_path # None /\ ~min_cost.inf

\* C8: with at least one city no self-distance distances[c][c] is looked up;
\* for the single-city list (start) the solve yields a trivial tour of cost 0
\* or (None, infinity), never an error or another cost.
C8_NoSelfLookup ==
    N >= 1 =>
        /\ \A p \in lookups : p[1] # p[2]
        /\ (cities = <<initial>> /\ Finished) =>
              /\ pc = "returned"
              /\ \/ best_path = <<initial, initial>> /\ min_cost = Fin(0)
                 \/ best_path = None /\ min_cost = Inf

----------------------------------------------------------------------------
(* C9, C10: the stepping interface (specification SpecModel) *)

\* C9: from the route (start,) with start in cities, stepping with
\* result(state, a) for a in actions(state) only reaches routes without a
\* repeated city and within the city set; actions(state) is exactly the
\* cities not in state, none once all are visited; result(state, a) is state
\* with a appended.
C9_RouteInvariant ==
    (Distinct(cities) /\ StartInCities) =>
        /\ state[1] = initial
        /\ Distinct(state)
        /\ ToSet(state) \subseteq ToSet(cities)
        /\ ToSet(actions(state)) = ToSet(cities) \ ToSet(state)
        /\ Distinct(actions(state))
        /\ ToSet(state) = ToSet(cities) => actions(state) = <<>>
        /\ \A a \in ToSet(actions(state)) :
              LET r == result(state, a)
              IN  /\ Len(r) = Len(state) + 1
                  /\ SubSeq(r, 1, Len(state)) = state
                  /\ r[Len(r)] = a

C9_Witness ==
    /\ Distinct(cities) /\ StartInCities /\ N = 3
    /\ Len(state) = 2
    /\ Len(actions(state)) = 1

\* C10: with n >= 1 distinct cities and start in cities, no route reached by
\* stepping satisfies is_goal: a route stops at length n with no action left,
\* and only appending start, as tsp_solver does, completes the tour.
C10_GoalUnreachable ==
    (N >= 1 /\ Distinct(cities) /\ StartInCities) =>
        /\ ~is_goal(state)
        /\ Len(state) <= N
        /\ Len(state) = N =>
              /\ actions(state) = <<>>
              /\ ~ENABLED Step
              /\ is_goal(ClosedTour(state))

C10_Witness ==
    /\ Distinct(cities) /\ StartInCities /\ N = 3
    /\ Len(state) = N
    /\ actions(state) = <<>>

====
